---- MODULE Spec2Model ----
(***************************************************************************)
(* Lagrangian particle-tracking service (src/app.py).                      *)
(*                                                                         *)
(* One API request /api/aus_sim/<params> is followed from the parameter    *)
(* string to the JSON response: parse_params, then simulate_aus (load the  *)
(* velocity file, load the overlay files, seed the particle cloud, plan    *)
(* the major steps, integrate sub-step by sub-step, return the payload),   *)
(* wrapped in api_sim's try/except.  simulate_gbr / api_gbr_sim are the    *)
(* same statements over another velocity store (src/app.py:154-288,        *)
(* 325-332); the integrator lines are textually identical.                 *)
(*                                                                         *)
(* Positions are integers on a coarse lattice; np.nan is the value NaN     *)
(* with IEEE semantics (every comparison with it is false, every sum with  *)
(* it is NaN).  The displacement (dlon, dlat) of an in-bounds particle in  *)
(* a sub-step is any element of Disp, independently per particle and per   *)
(* sub-step: the velocity field is arbitrary.  A forwards run adds it, a   *)
(* backwards run subtracts it.                                             *)
(***************************************************************************)
EXTENDS Integers, Sequences, FiniteSets

VARIABLES
    pc,          \* position of the request in api_sim / simulate_aus
    mlon, mlat,  \* origin of the seed box
    mNP,         \* particle count token, as parsed by int()
    mAREA,       \* side of the seed box
    mSIM,        \* direction token, unvalidated
    mDUR,        \* duration in days
    dt,          \* time step in hours
    date_str,    \* start date token, unvalidated
    velOK,       \* the velocity file can be opened and read
    coastOK,     \* etopo1_aus.csv can be opened
    reefOK,      \* reef_locs_aus.csv can be opened
    nsnap,       \* len(time_all): snapshots in the velocity file
    loaded,      \* the velocity arrays have been read into memory
    map_pts,     \* coastline overlay as returned
    reef_pts,    \* reef overlay as returned
    seedLon, seedLat,  \* the cloud as seeded (lonP, latP at line 59)
    lonP, latP,  \* the particle cloud
    LONP, LATP,  \* recorded snapshots, one row per sub-step
    dates,       \* recorded date strings, as day offsets from the start date
    major_steps, max_idx,
    time_idx,    \* leading time indices still to be processed
    used,        \* the (i1, i2) pairs derived so far at line 83
    sub_steps, s,
    exc,         \* the exception in flight, "" when none
    response     \* what api_sim returns

vars == <<pc, mlon, mlat, mNP, mAREA, mSIM, mDUR, dt, date_str, velOK,
          coastOK, reefOK, nsnap, loaded, map_pts, reef_pts, seedLon, seedLat,
          lonP, latP, LONP, LATP, dates, major_steps, max_idx, time_idx, used,
          sub_steps, s, exc, response>>

params == <<mlon, mlat, mNP, mAREA, mSIM, mDUR, dt, date_str>>
files == <<velOK, coastOK, reefOK, nsnap>>
overlays == <<map_pts, reef_pts>>
cloud == <<lonP, latP>>
seeds == <<seedLon, seedLat>>
record == <<LONP, LATP, dates>>
plan == <<major_steps, max_idx, time_idx>>

----------------------------------------------------------------------------
(* Bounds of the model *)

MaxNP == 1
MaxSnap == 3

(* Program constants *)

ND == 5
NaN == 0 - 1000

(* Inputs *)

Directions == {"forwards", "backwards", "sideways"}
NPSet == (0 - 1)..MaxNP
DurSet == {0 - 5, 0, 3, 10}
DtSet == {0 - 24, 0, 60, 120, 200}
AreaSet == {0, 2}
DateSet == {"2020-01-01", "yesterday"}
lon_nc == <<0, 1>>
lat_nc == <<0, 1>>
Disp == {<<0, 0>>, <<1, 0>>, <<0, 0 - 1>>}
CoastFile == <<<<0, 0>>, <<1, 1>>>>
ReefFile == <<<<1, 0>>>>

----------------------------------------------------------------------------
(* Arithmetic as Python and numpy do it *)

Abs(x) == IF x < 0 THEN 0 - x ELSE x

\* math.ceil(a / b) for b > 0
Ceil(a, b) == 0 - ((0 - a) \div b)

\* int(a / b): truncation toward zero, b # 0
PyInt(a, b) ==
    LET q == Abs(a) \div Abs(b)
    IN  IF (a < 0) # (b < 0) THEN 0 - q ELSE q

Min2(a, b) == IF a < b THEN a ELSE b

SeqMin(q) == CHOOSE x \in {q[i] : i \in 1..Len(q)} :
                 \A j \in 1..Len(q) : x <= q[j]
SeqMax(q) == CHOOSE x \in {q[i] : i \in 1..Len(q)} :
                 \A j \in 1..Len(q) : x >= q[j]

\* a >= b and a <= b on floats: false when either side is nan
Geq(a, b) == a # NaN /\ b # NaN /\ a >= b
Leq(a, b) == a # NaN /\ b # NaN /\ a <= b
\* a + b and a - b on floats
Add(a, b) == IF a = NaN \/ b = NaN THEN NaN ELSE a + b
Sub(a, b) == IF a = NaN \/ b = NaN THEN NaN ELSE a - b

\* list(range(a, b)) and list(range(a, b, -1))
RangeUp(a, b) == [k \in 1..(IF b > a THEN b - a ELSE 0) |-> a + k - 1]
RangeDown(a, b) == [k \in 1..(IF a > b THEN a - b ELSE 0) |-> a - k + 1]

\* datetime.fromisoformat accepts the string
IsoDate(str) == str = "2020-01-01"

\* strftime('%Y-%m-%d') of the start date (midnight) plus h hours, h >= 0,
\* as the number of days after the start date
DateStr(h) == h \div 24

----------------------------------------------------------------------------
(* The pieces of simulate_aus *)

lon_min == SeqMin(lon_nc)
lon_max == SeqMax(lon_nc)
lat_min == SeqMin(lat_nc)
lat_max == SeqMax(lat_nc)

\* np.random.uniform(-1, 1) scaled by mAREA/2 around the origin c
SeedVals(c, area) == (c - area \div 2)..(c + area \div 2)

\* (variant: the requested count is not limited to the available indices)
MajorStepsUnclamped(dur, n) == Ceil(dur, ND)

\* major_steps = min(math.ceil(mDUR / ND), len(time_all) - 1)
MajorSteps(dur, n) == Min2(Ceil(dur, ND), n - 1)

\* (variant: a backwards run counts down from major_steps, not from the
\* last snapshot)
TimeIdxFromCount(dir, ms, mx) ==
    IF dir = "forwards" THEN RangeUp(0, ms) ELSE RangeDown(ms, 0)

\* the list of leading time indices
TimeIdx(dir, ms, mx) ==
    IF dir = "forwards" THEN RangeUp(0, ms) ELSE RangeDown(mx, mx - ms)

\* i1, i2 of a leading index t
Pair(t, dir) == IF dir = "forwards" THEN <<t, t + 1>> ELSE <<t, t - 1>>

\* U[i, :, :] on an array of n snapshots: negative indices wrap, others raise
ValidIndex(i, n) == i >= 0 - n /\ i < n

\* (variant: the quotient rounded up instead of truncated)
SubStepsCeil(d) == IF d > 0 THEN Ceil(ND * 24, d) ELSE PyInt(ND * 24, d)

\* sub_steps = int(ND * 24 / dt), dt # 0
SubSteps(d) == PyInt(ND * 24, d)

\* (variant: the mask tests the longitude only)
InBLonOnly(lo, la) == Geq(lo, lon_min) /\ Leq(lo, lon_max)

\* the mask inb for one particle
InB(lo, la) ==
    /\ Geq(lo, lon_min) /\ Leq(lo, lon_max)
    /\ Geq(la, lat_min) /\ Leq(la, lat_max)

\* (variant: nan positions are reset to 0 before the mask, as line 41 does
\* for the velocities)
StepNanToZero(lo, la, d, dir) ==
    LET lo0 == IF lo = NaN THEN 0 ELSE lo
        la0 == IF la = NaN THEN 0 ELSE la
    IN  IF InB(lo0, la0)
        THEN IF dir = "forwards"
             THEN <<Add(lo0, d[1]), Add(la0, d[2])>>
             ELSE <<Sub(lo0, d[1]), Sub(la0, d[2])>>
        ELSE <<NaN, NaN>>

\* (variant: the mask is taken after the displacement)
StepCheckAfter(lo, la, d, dir) ==
    LET m == IF dir = "forwards"
             THEN <<Add(lo, d[1]), Add(la, d[2])>>
             ELSE <<Sub(lo, d[1]), Sub(la, d[2])>>
    IN  IF InB(lo, la) /\ InB(m[1], m[2]) THEN m ELSE <<NaN, NaN>>

\* one particle through lines 97-122: d is its (dlon, dlat)
Step(lo, la, d, dir) ==
    IF InB(lo, la)
    THEN IF dir = "forwards"
         THEN <<Add(lo, d[1]), Add(la, d[2])>>
         ELSE <<Sub(lo, d[1]), Sub(la, d[2])>>
    ELSE <<NaN, NaN>>

\* current = ref_date + timedelta(hours=len(dates) * dt), formatted
Stamp(n, d) == DateStr(n * d)

Column(pts, c) == [i \in 1..Len(pts) |-> pts[i][c]]

\* the dictionary simulate_aus returns
ResultPayload ==
    [LONP |-> LONP, LATP |-> LATP, TS |-> Len(LONP), dt |-> dt,
     dates |-> dates,
     map_lon |-> Column(map_pts, 1), map_lat |-> Column(map_pts, 2),
     reef_lon |-> Column(reef_pts, 1), reef_lat |-> Column(reef_pts, 2),
     mlon |-> mlon, mlat |-> mlat, mAREA |-> mAREA, mSIM |-> mSIM,
     mNP |-> mNP,
     bounds |-> [lon_min |-> lon_min, lon_max |-> lon_max,
                 lat_min |-> lat_min, lat_max |-> lat_max]]

\* (variant: the error response carries what was computed so far)
ErrorPayloadPartial(e) ==
    [error |-> e, LONP |-> LONP, LATP |-> LATP, dates |-> dates]

\* the dictionary api_sim returns for an exception e
ErrorPayload(e) == [error |-> e]

NoResponse == [pending |-> TRUE]

----------------------------------------------------------------------------
Init ==
    /\ pc = "request"
    /\ mlon = 0 /\ mlat = 0 /\ mNP = 0 /\ mAREA = 0
    /\ mSIM = "" /\ mDUR = 0 /\ dt = 0 /\ date_str = ""
    /\ velOK \in BOOLEAN /\ coastOK \in BOOLEAN /\ reefOK \in BOOLEAN
    /\ nsnap \in 0..MaxSnap
    /\ loaded = FALSE
    /\ map_pts = <<>> /\ reef_pts = <<>>
    /\ seedLon = <<>> /\ seedLat = <<>>
    /\ lonP = <<>> /\ latP = <<>>
    /\ LONP = <<>> /\ LATP = <<>> /\ dates = <<>>
    /\ major_steps = 0 /\ max_idx = 0 /\ time_idx = <<>>
    /\ used = <<>>
    /\ sub_steps = 0 /\ s = 0
    /\ exc = ""
    /\ response = NoResponse

Raise(e) == pc' = "raised" /\ exc' = e

\* api_sim, line 319: parse_params splits the string and converts the
\* numeric tokens, raising when one does not convert or is missing; the
\* direction and date tokens are taken as they are
ParseParams ==
    /\ pc = "request"
    /\ \/ /\ \E np \in NPSet, area \in AreaSet, dir \in Directions,
                dur \in DurSet, d \in DtSet, date \in DateSet :
                /\ mlon' = 0 /\ mlat' = 0
                /\ mNP' = np /\ mAREA' = area /\ mSIM' = dir
                /\ mDUR' = dur /\ dt' = d /\ date_str' = date
          /\ pc' = "load"
          /\ exc' = exc
       \/ /\ Raise("could not convert string to float")
          /\ UNCHANGED params
    /\ UNCHANGED <<files, loaded, overlays, seeds, cloud, record, plan,
                   used, sub_steps, s, response>>

\* lines 35-41
LoadVelocity ==
    /\ pc = "load"
    /\ IF velOK
       THEN /\ loaded' = TRUE
            /\ pc' = "overlays"
            /\ exc' = exc
       ELSE /\ Raise("No such file or directory: oscar_vel2020_oz.nc")
            /\ loaded' = loaded
    /\ UNCHANGED <<params, files, overlays, seeds, cloud, record, plan,
                   used, sub_steps, s, response>>

\* lines 43-55
LoadOverlays ==
    /\ pc = "overlays"
    /\ map_pts' = IF coastOK THEN CoastFile ELSE <<>>
    /\ IF reefOK
       THEN /\ reef_pts' = ReefFile
            /\ pc' = "seed"
            /\ exc' = exc
       ELSE /\ Raise("No such file or directory: reef_locs_aus.csv")
            /\ reef_pts' = reef_pts
    /\ UNCHANGED <<params, files, loaded, seeds, cloud, record, plan,
                   used, sub_steps, s, response>>

\* lines 57-59
Seed ==
    /\ pc = "seed"
    /\ IF mNP < 0
       THEN /\ Raise("negative dimensions are not allowed")
            /\ UNCHANGED <<seeds, cloud>>
       ELSE /\ lonP' \in [1..mNP -> SeedVals(mlon, mAREA)]
            /\ latP' \in [1..mNP -> SeedVals(mlat, mAREA)]
            /\ seedLon' = lonP' /\ seedLat' = latP'
            /\ pc' = "plan"
            /\ exc' = exc
    /\ UNCHANGED <<params, files, loaded, overlays, record, plan, used,
                   sub_steps, s, response>>

\* lines 61-79
Plan ==
    /\ pc = "plan"
    /\ LONP' = <<>> /\ LATP' = <<>> /\ dates' = <<>>
    /\ IF ~IsoDate(date_str)
       THEN /\ Raise("Invalid isoformat string")
            /\ UNCHANGED plan
       ELSE /\ max_idx' = nsnap - 1
            /\ major_steps' = MajorSteps(mDUR, nsnap)
            /\ time_idx' = TimeIdx(mSIM, major_steps', max_idx')
            /\ pc' = "loop"
            /\ exc' = exc
    /\ UNCHANGED <<params, files, loaded, overlays, seeds, cloud, used,
                   sub_steps, s, response>>

\* lines 82-92: the head of one iteration of the loop over time_idx
MajorStep ==
    /\ pc = "loop"
    /\ time_idx # <<>>
    /\ LET p == Pair(Head(time_idx), mSIM)
       IN  /\ used' = Append(used, p)
           /\ time_idx' = Tail(time_idx)
           /\ IF ~ValidIndex(p[1], nsnap) \/ ~ValidIndex(p[2], nsnap)
              THEN /\ Raise("index is out of bounds for axis 0")
                   /\ UNCHANGED <<sub_steps, s>>
              ELSE IF dt = 0
              THEN /\ Raise("division by zero")
                   /\ UNCHANGED <<sub_steps, s>>
              ELSE /\ sub_steps' = SubSteps(dt)
                   /\ s' = 1
                   /\ pc' = IF sub_steps' >= 1 THEN "sub" ELSE "loop"
                   /\ exc' = exc
    /\ UNCHANGED <<params, files, loaded, overlays, seeds, cloud, record,
                   major_steps, max_idx, response>>

\* lines 93-129: one iteration of the loop over s
SubStep ==
    /\ pc = "sub"
    /\ s <= sub_steps
    /\ \E d \in [1..mNP -> Disp] :
          LET new == [i \in 1..mNP |-> Step(lonP[i], latP[i], d[i], mSIM)]
          IN  /\ lonP' = [i \in 1..mNP |-> new[i][1]]
              /\ latP' = [i \in 1..mNP |-> new[i][2]]
    /\ LONP' = Append(LONP, lonP')
    /\ LATP' = Append(LATP, latP')
    /\ dates' = Append(dates, Stamp(Len(dates), dt))
    /\ s' = s + 1
    /\ pc' = IF s = sub_steps THEN "loop" ELSE "sub"
    /\ UNCHANGED <<params, files, loaded, overlays, seeds, plan, used,
                   sub_steps, exc, response>>

\* lines 131-152 and api_sim line 321
Return ==
    /\ pc = "loop"
    /\ time_idx = <<>>
    /\ response' = ResultPayload
    /\ pc' = "responded"
    /\ UNCHANGED <<params, files, loaded, overlays, seeds, cloud, record,
                   plan, used, sub_steps, s, exc>>

\* api_sim lines 322-323
ApiExcept ==
    /\ pc = "raised"
    /\ response' = ErrorPayload(exc)
    /\ pc' = "responded"
    /\ UNCHANGED <<params, files, loaded, overlays, seeds, cloud, record,
                   plan, used, sub_steps, s, exc>>

Next ==
    \/ ParseParams
    \/ LoadVelocity
    \/ LoadOverlays
    \/ Seed
    \/ Plan
    \/ MajorStep
    \/ SubStep
    \/ Return
    \/ ApiExcept

Spec == Init /\ [][Next]_vars

----------------------------------------------------------------------------
(* Vocabulary of the properties *)

Known == {"forwards", "backwards"}
IsResult == pc = "responded" /\ "LONP" \in DOMAIN response
IsError == pc = "responded" /\ "error" \in DOMAIN response
Rows == 1..Len(LONP)
Particles == DOMAIN seedLon
Exited(k, p) == LONP[k][p] = NaN /\ LATP[k][p] = NaN
Valid(k, p) == LONP[k][p] # NaN /\ LATP[k][p] # NaN
\* a finite position off the grid
OffGrid(lo, la) ==
    /\ lo # NaN /\ la # NaN
    /\ \/ lo < lon_min \/ lo > lon_max \/ la < lat_min \/ la > lat_max
OnGrid(lo, la) ==
    /\ lo # NaN /\ la # NaN
    /\ lo >= lon_min /\ lo <= lon_max /\ la >= lat_min /\ la <= lat_max
Max0(x) == IF x < 0 THEN 0 ELSE x
\* every data file is present
FilesPresent == velOK /\ coastOK /\ reefOK
\* the tokens the property is not about are in order
DateOK == date_str = "2020-01-01"
\* the position a particle had before snapshot k was taken
PrevLon(k, p) == IF k = 1 THEN seedLon[p] ELSE LONP[k - 1][p]
PrevLat(k, p) == IF k = 1 THEN seedLat[p] ELSE LATP[k - 1][p]

----------------------------------------------------------------------------
\* C1: a particle recorded as exited (both coordinates NaN) in a snapshot is
\* recorded as exited in every later snapshot of the run.
ExitedStaysExited ==
    \A p \in Particles : \A j \in Rows : \A k \in Rows :
        (j <= k /\ Exited(j, p)) => Exited(k, p)

\* a particle seeded on the grid leaves it in the first sub-step, is exited
\* in the second, and the run goes on over a major-step boundary to four
\* snapshots
ExitedAcrossMajorStep ==
    /\ IsResult /\ sub_steps = 2 /\ Len(LONP) = 4
    /\ \E p \in Particles :
          /\ Valid(1, p) /\ Exited(2, p) /\ Exited(3, p) /\ Exited(4, p)

----------------------------------------------------------------------------
\* C2 (as amended): with dt > 0 the returned trajectory has
\* max(0, min(ceil(duration/ND), available_snapshots - 1)) * floor(ND*24/dt)
\* snapshots: rows of LONP, rows of LATP, entries of dates and TS all equal it.
SnapshotCount ==
    (IsResult /\ dt > 0) =>
        LET n == Max0(Min2(Ceil(mDUR, ND), nsnap - 1)) * ((ND * 24) \div dt)
        IN  /\ Len(response.LONP) = n
            /\ Len(response.LATP) = n
            /\ Len(response.dates) = n
            /\ response.TS = n

\* C2 as stated: the count is min(ceil(duration/ND), available_snapshots - 1)
\* * floor(ND*24/dt), whatever the snapshot count (here for a positive
\* duration and at least one particle).
SnapshotCountUnclamped ==
    (IsResult /\ dt > 0 /\ mDUR > 0 /\ mNP > 0) =>
        LET n == Min2(Ceil(mDUR, ND), nsnap - 1) * ((ND * 24) \div dt)
        IN  /\ Len(response.LONP) = n
            /\ Len(response.LATP) = n
            /\ Len(response.dates) = n
            /\ response.TS = n

\* ten days asked, two snapshots available: one major step of two sub-steps
CappedBySnapshots ==
    /\ IsResult /\ mDUR = 10 /\ nsnap = 2 /\ dt = 60
    /\ response.TS = 2

----------------------------------------------------------------------------
\* C3: a request whose direction token is neither 'forwards' nor 'backwards'
\* (all else in order) ends in an error, with no velocity or overlay data
\* loaded and no trajectory returned.
UnknownDirectionRejected ==
    (pc = "responded" /\ mSIM \notin Known
        /\ mNP > 0 /\ mDUR > 0 /\ dt > 0 /\ DateOK
        /\ FilesPresent /\ nsnap >= 2) =>
        /\ IsError
        /\ ~loaded
        /\ map_pts = <<>> /\ reef_pts = <<>>

----------------------------------------------------------------------------
\* C4: a request with N <= 0 or duration <= 0 (all else in order) ends in
\* an error, with no data loaded, and never in a result payload.
NonPositiveRejected ==
    (pc = "responded" /\ (mNP <= 0 \/ mDUR <= 0)
        /\ mSIM \in Known /\ dt > 0 /\ DateOK /\ FilesPresent) =>
        /\ IsError
        /\ ~loaded

----------------------------------------------------------------------------
\* C5: when an overlay file is missing (coastline or reef) the simulation
\* still completes and returns its trajectory with that overlay empty.
MissingOverlayDegrades ==
    (pc = "responded" /\ velOK /\ nsnap >= 2
        /\ mNP > 0 /\ mDUR > 0 /\ dt > 0 /\ mSIM \in Known /\ DateOK) =>
        /\ IsResult
        /\ ~coastOK => (response.map_lon = <<>> /\ response.map_lat = <<>>)
        /\ ~reefOK => (response.reef_lon = <<>> /\ response.reef_lat = <<>>)

----------------------------------------------------------------------------
\* C6: when the velocity source is missing or unreadable the request ends in
\* an error response that describes the failure and holds no trajectory:
\* nothing is loaded or integrated, and the response is the error alone.
VelocityMissingIsError ==
    ~velOK =>
        /\ ~loaded
        /\ LONP = <<>> /\ LATP = <<>> /\ dates = <<>>
        /\ pc = "responded" =>
              /\ DOMAIN response = {"error"}
              /\ response.error # ""

\* the request was parsed, the velocity file could not be opened, and the
\* response is out
VelocityMissingResponded ==
    ~velOK /\ pc = "responded" /\ mSIM \in Known /\ mNP > 0

----------------------------------------------------------------------------
\* C7: the (i1, i2) pairs of a backwards run mirror those of a forwards run
\* with the same parameters: both have n pairs, the k-th forwards pair is
\* (k, k+1) and the k-th backwards pair (last - k, last - k - 1), k from 0.
MirrorPairs ==
    LET last == nsnap - 1
        n == Max0(Min2(Ceil(mDUR, ND), last))
        fw == [k \in 1..n |-> <<k - 1, k>>]
        bw == [k \in 1..n |-> <<last - (k - 1), last - (k - 1) - 1>>]
        want == IF mSIM = "forwards" THEN fw ELSE bw
    IN  mSIM \in Known =>
            /\ Len(used) <= n
            /\ \A k \in 1..Len(used) : used[k] = want[k]
            /\ IsResult => used = want

BackwardsTwoPairs ==
    /\ IsResult /\ mSIM = "backwards" /\ nsnap = 3
    /\ used = <<<<2, 1>>, <<1, 0>>>>

----------------------------------------------------------------------------
\* C8: a particle in bounds at a sub-step's bounds check is recorded with its
\* displaced position, finite even when that position is off the grid; a
\* particle recorded off the grid is exited in the next snapshot, also when
\* that snapshot belongs to the next major step, and in every later one.
Containment ==
    \A p \in Particles : \A k \in Rows :
        /\ LONP[Len(LONP)][p] = lonP[p] /\ LATP[Len(LATP)][p] = latP[p]
        /\ OnGrid(PrevLon(k, p), PrevLat(k, p)) => Valid(k, p)
        /\ OffGrid(LONP[k][p], LATP[k][p]) =>
              \A j \in Rows : j > k => Exited(j, p)

\* the displaced position of the last sub-step of the first major step is
\* off the grid and recorded; the two snapshots of the next major step
\* record the particle as exited
OffGridAtMajorStepEnd ==
    /\ IsResult /\ sub_steps = 2 /\ Len(LONP) = 4
    /\ \E p \in Particles :
          /\ OnGrid(LONP[1][p], LATP[1][p])
          /\ OffGrid(LONP[2][p], LATP[2][p])
          /\ Exited(3, p) /\ Exited(4, p)

----------------------------------------------------------------------------
\* C9: a particle seeded outside the grid bounds is recorded as NaN in both
\* coordinates in the first snapshot and in every later one; it is never
\* displaced.
SeededOutsideExcluded ==
    \A p \in Particles :
        OffGrid(seedLon[p], seedLat[p]) =>
            /\ \A k \in Rows : Exited(k, p)
            /\ <<lonP[p], latP[p]>> \in
                   {<<seedLon[p], seedLat[p]>>, <<NaN, NaN>>}

\* a seed whose longitude is on the grid and whose latitude is not, in a run
\* of four snapshots
SeededOutsideInLatitude ==
    /\ IsResult /\ Len(LONP) = 4
    /\ \E p \in Particles :
          /\ seedLon[p] = 0 /\ seedLat[p] = 0 - 1
          /\ Exited(1, p) /\ Exited(4, p)

----------------------------------------------------------------------------
\* C10: the k-th snapshot is stamped start date + k * dt hours, the sub-step
\* whose positions it holds included.
StampCountsCurrentSubStep ==
    mNP > 0 =>
        \A k \in 1..Len(dates) : dates[k] = (k * dt) \div 24

----------------------------------------------------------------------------
\* C11: every pair (i1, i2) derived for slicing the velocity arrays lies in
\* the available range, 0 <= i1 <= last and 0 <= i2 <= last with
\* last = available_snapshots - 1, and its two indices are adjacent; this
\* for every direction token, duration and snapshot count, so that no index
\* is past the end and none is negative (which would wrap around).
PairsInRange ==
    \A k \in 1..Len(used) :
        LET i1 == used[k][1]
            i2 == used[k][2]
        IN  /\ 0 <= i1 /\ i1 <= nsnap - 1
            /\ 0 <= i2 /\ i2 <= nsnap - 1
            /\ (i1 - i2 = 1 \/ i2 - i1 = 1)

\* ten days asked of three snapshots, backwards: the second pair reaches
\* index 0, the low end of the range
BackwardsReachesZero ==
    /\ IsResult /\ mSIM = "backwards" /\ mDUR = 10 /\ nsnap = 3
    /\ Len(used) = 2 /\ used[2][2] = 0 /\ Len(LONP) = 4

====
